---- MODULE Spec2Model ----
(***************************************************************************)
(* State-machine model of bcbio/variation/mutect2.py: the construction of  *)
(* the MuTect2 command line (_add_tumor_params, _add_region_params,        *)
(* mutect2_caller) and the call sequence of mutect2_caller around the      *)
(* file_transaction block.                                                 *)
(***************************************************************************)
EXTENDS Integers, Sequences, FiniteSets, TLC

\* Largest number of samples in a batch (items / align_bams).
MaxItems == 2

\* Python's None, for values that are otherwise strings.
None == "<None>"

(***************************************************************************)
(* Paths.  A path is kept split as os.path / splitext_plus split it, and   *)
(* rendered to the string that is put on a command line.                   *)
(***************************************************************************)
Path(d, s, e) == [dir |-> d, stem |-> s, ext |-> e]

PathStr(p) == p.dir \o "/" \o p.stem \o p.ext

\* utils.splitext_plus(f): (base, extension), ".vcf.gz" kept as one extension.
splitext_plus(p) == <<p.dir \o "/" \o p.stem, p.ext>>

\* os.path.dirname(f)
dirname(p) == p.dir

\* "%s-variants.vcf.gz" % utils.splitext_plus(align_bams[0])[0]
DefaultOutFile(bam) == Path(bam.dir, bam.stem \o "-variants", ".vcf.gz")

\* "%s-raw%s" % utils.splitext_plus(tx_out_file)
RawFile(tx) == Path(tx.dir, tx.stem \o "-raw", tx.ext)

(***************************************************************************)
(* Input domains.                                                          *)
(***************************************************************************)
\* One sample of the batch: its name, its phenotype, and the panel of
\* normals (background variant file) configured for it.
Samples ==
    { [name |-> "T1", phenotype |-> "tumor",  panel |-> None],
      [name |-> "T2", phenotype |-> "tumor",  panel |-> "/ref/pon.vcf.gz"],
      [name |-> "N1", phenotype |-> "normal", panel |-> None] }

Batches == UNION { [1..n -> Samples] : n \in 1..MaxItems }

\* The i-th aligned BAM file.
AlignBam(i) == Path("/data", "s" \o ToString(i), ".bam")

\* A region argument: None, or a (chrom, start, end) tuple; after
\* subsetting it may also be a BED file.
NoRegion == [kind |-> "none", chrom |-> None, start |-> 0, end |-> 0, file |-> None]

TupleRegion(c, s, e) == [kind |-> "tuple", chrom |-> c, start |-> s, end |-> e, file |-> None]

FileRegion(f) == [kind |-> "file", chrom |-> None, start |-> 0, end |-> 0, file |-> f]

RegionArgs == { NoRegion, TupleRegion("chr1", 0, 100) }

\* Configured variant_regions of the batch: None or a BED file.
VariantRegionChoices == { None, "/ref/targets.bed" }

\* assoc_files: dbsnp and cosmic, each set or unset.
AssocFileChoices ==
    [dbsnp : {None, "/ref/dbsnp.vcf.gz"}, cosmic : {None, "/ref/cosmic.vcf.gz"}]

\* The runner: its gatk_type() and its gatk_major_version().
Runners ==
    { [gatk_type |-> "gatk4",      version |-> "4.0"],
      [gatk_type |-> "restricted", version |-> "3.4"],
      [gatk_type |-> "restricted", version |-> "3.5"],
      [gatk_type |-> "restricted", version |-> "3.10"] }

\* An element of the configured options: a YAML string or a YAML integer.
OptS(s) == [isint |-> FALSE, s |-> s, n |-> 0]

OptI(n) == [isint |-> TRUE, s |-> None, n |-> n]

\* config_utils.get_resources("mutect2", config): with or without "options".
ResourceChoices ==
    { [has_options |-> FALSE, options |-> <<>>],
      [has_options |-> TRUE,  options |-> <<>>],
      [has_options |-> TRUE,  options |-> <<OptS("--max_alternate_alleles"), OptI(6)>>],
      [has_options |-> TRUE,  options |-> <<OptS("-L"), OptS("chrM")>>],
      [has_options |-> TRUE,
       options |-> <<OptS("-L"), OptS("chr1:1-100"),
                     OptS("--interval-set-rule"), OptS("INTERSECTION")>>],
      [has_options |-> TRUE,  options |-> <<OptS("--tumor-sample"), OptS("T1")>>],
      [has_options |-> TRUE,  options |-> <<OptS("--dbsnp"), OptS("/ref/dbsnp.vcf.gz")>>] }

\* annotation.get_gatk_annotations(config, include_baseqranksum=False)
AnnotationChoices == { <<>>, <<"MappingQualityRankSumTest", "ReadPosRankSumTest">> }

\* ploidy.get_ploidy(items, region)
PloidyChoices == { 1, 2 }

RefFile == "/ref/genome.fa"

(***************************************************************************)
(* Helpers on sequences.                                                   *)
(***************************************************************************)
RECURSIVE Count(_, _)
Count(x, s) == IF s = <<>> THEN 0
               ELSE (IF s[1] = x THEN 1 ELSE 0) + Count(x, Tail(s))

Contains(x, s) == \E i \in 1..Len(s) : s[i] = x

\* The positions at which the run r occurs contiguously in s.
RunAt(r, s) == { i \in 1..Len(s) : i + Len(r) - 1 <= Len(s) /\ SubSeq(s, i, i + Len(r) - 1) = r }

\* str(x) of a configured option
PyStr(x) == IF x.isint THEN ToString(x.n) ELSE x.s

(***************************************************************************)
(* Collaborators of mutect2.py that live in other modules of bcbio.        *)
(***************************************************************************)
\* dd.get_sample_name(x) for x in items
SampleNames(its) == [i \in 1..Len(its) |-> its[i].name]

\* vcfutils.PairedData when no tumor sample was found (Python None).
NoPair ==
    [tumor_bam |-> None, tumor_name |-> None, normal_bam |-> None,
     normal_name |-> None, normal_panel |-> None]

\* vcfutils.get_paired_bams(align_bams, items): walks zip(align_bams, items);
\* a later sample of a phenotype replaces an earlier one; the panel of
\* normals is the tumor sample's; None when the batch has no tumor sample.
RECURSIVE PairUpTo(_, _, _)
PairUpTo(bams, its, n) ==
    IF n = 0 THEN NoPair
    ELSE LET prev == PairUpTo(bams, its, n - 1)
             it   == its[n]
         IN  IF it.phenotype = "normal"
             THEN [prev EXCEPT !.normal_bam = PathStr(bams[n]), !.normal_name = it.name]
             ELSE IF it.phenotype = "tumor"
             THEN [prev EXCEPT !.tumor_bam = PathStr(bams[n]), !.tumor_name = it.name,
                               !.normal_panel = it.panel]
             ELSE prev

get_paired_bams(bams, its) ==
    LET p == PairUpTo(bams, its, IF Len(bams) < Len(its) THEN Len(bams) ELSE Len(its))
    IN  IF p.tumor_bam = None \/ p.tumor_name = None THEN NoPair ELSE p

\* subset_variant_regions(variant_regions, region, out_file, items): the
\* configured regions when no region is asked for, the region when nothing is
\* configured, and otherwise a BED file next to out_file that holds their
\* intersection.
subset_variant_regions(vr, reg, out, its) ==
    IF reg.kind = "none" THEN (IF vr = None THEN NoRegion ELSE FileRegion(vr))
    ELSE IF vr = None THEN reg
    ELSE FileRegion(splitext_plus(out)[1] \o "-regions.bed")

\* The BED file subset_variant_regions writes in that last case.
SubsetFile(out) == Path(out.dir, out.stem \o "-regions", ".bed")

\* bamprep.region_to_gatk(region): a (chrom, start, end) tuple becomes the
\* 1-based "chrom:start+1-end"; a file name is passed as it is.
region_to_gatk(reg) ==
    IF reg.kind = "tuple"
    THEN reg.chrom \o ":" \o ToString(reg.start + 1) \o "-" \o ToString(reg.end)
    ELSE reg.file

\* gatk.standard_cl_params(items): the duplicate-read filter is disabled when
\* a sample of the batch skips duplicate marking.
standard_cl_params(skip_dups, gtype) ==
    IF ~skip_dups THEN <<>>
    ELSE IF gtype = "gatk4" THEN <<"--disable-read-filter", "NotDuplicateReadFilter">>
    ELSE <<"-drf", "DuplicateRead">>

\* distutils LooseVersion: the dotted components, compared as integers.
LooseVersion(v) ==
    CASE v = "3.4"  -> <<3, 4>>
      [] v = "3.5"  -> <<3, 5>>
      [] v = "3.10" -> <<3, 10>>
      [] v = "4.0"  -> <<4, 0>>

RECURSIVE VersionGE(_, _)
VersionGE(a, b) ==
    IF b = <<>> THEN TRUE
    ELSE IF a = <<>> THEN FALSE
    ELSE IF a[1] # b[1] THEN a[1] > b[1]
    ELSE VersionGE(Tail(a), Tail(b))

\* broad_runner.cl_gatk(params, tmp_dir): the command line of one GATK run.
cl_gatk(ps, tmp_dir) == [params |-> ps, tmp_dir |-> tmp_dir]

\* file_transaction(items[0], out_file): the temporary path, in a directory
\* of its own, that stands for out_file inside the block.
TxFile(out) == Path(out.dir \o "/tx/tmp0", out.stem, out.ext)

\* The tabix index bgzip_and_index leaves next to the file.
TbiFile(out) == Path(out.dir, out.stem, out.ext \o ".tbi")

(***************************************************************************)
(* mutect2.py: the parameter builders.                                     *)
(***************************************************************************)
\* _add_tumor_params with the gatk4 spellings used for every tool version.
TumorParamsGatk4Only(paired, its, gtype) ==
    <<"-I", paired.tumor_bam, "--tumor-sample", paired.tumor_name>>
    \o (IF paired.normal_bam # None
        THEN <<"-I", paired.normal_bam, "--normal-sample", paired.normal_name>>
        ELSE <<>>)
    \o (IF paired.normal_panel # None
        THEN <<"--panel-of-normals", paired.normal_panel>>
        ELSE <<>>)

\* _add_tumor_params with the normal input put before the tumor input.
TumorParamsNormalFirst(paired, its, gtype) ==
    LET tumor  == IF gtype = "gatk4"
                  THEN <<"-I", paired.tumor_bam, "--tumor-sample", paired.tumor_name>>
                  ELSE <<"-I:tumor", paired.tumor_bam>>
        normal == IF paired.normal_bam # None
                  THEN (IF gtype = "gatk4"
                        THEN <<"-I", paired.normal_bam, "--normal-sample", paired.normal_name>>
                        ELSE <<"-I:normal", paired.normal_bam>>)
                  ELSE <<>>
        panel  == IF paired.normal_panel # None
                  THEN (IF gtype = "gatk4"
                        THEN <<"--panel-of-normals", paired.normal_panel>>
                        ELSE <<"--normal_panel", paired.normal_panel>>)
                  ELSE <<>>
    IN  normal \o tumor \o panel

\* _add_tumor_params without the test for a missing normal sample.
TumorParamsAlwaysNormal(paired, its, gtype) ==
    LET tumor  == IF gtype = "gatk4"
                  THEN <<"-I", paired.tumor_bam, "--tumor-sample", paired.tumor_name>>
                  ELSE <<"-I:tumor", paired.tumor_bam>>
        normal == IF gtype = "gatk4"
                  THEN <<"-I", paired.normal_bam, "--normal-sample", paired.normal_name>>
                  ELSE <<"-I:normal", paired.normal_bam>>
        panel  == IF paired.normal_panel # None
                  THEN (IF gtype = "gatk4"
                        THEN <<"--panel-of-normals", paired.normal_panel>>
                        ELSE <<"--normal_panel", paired.normal_panel>>)
                  ELSE <<>>
    IN  tumor \o normal \o panel

\* _add_tumor_params, lines 23-39 (the parameters returned when paired is set)
_add_tumor_params(paired, its, gtype) ==
    LET tumor  == IF gtype = "gatk4"
                  THEN <<"-I", paired.tumor_bam, "--tumor-sample", paired.tumor_name>>
                  ELSE <<"-I:tumor", paired.tumor_bam>>
        normal == IF paired.normal_bam # None
                  THEN (IF gtype = "gatk4"
                        THEN <<"-I", paired.normal_bam, "--normal-sample", paired.normal_name>>
                        ELSE <<"-I:normal", paired.normal_bam>>)
                  ELSE <<>>
        panel  == IF paired.normal_panel # None
                  THEN (IF gtype = "gatk4"
                        THEN <<"--panel-of-normals", paired.normal_panel>>
                        ELSE <<"--normal_panel", paired.normal_panel>>)
                  ELSE <<>>
    IN  tumor \o normal \o panel

\* _add_tumor_params, lines 18-22: the ValueError raised when paired is None
TumorError(its) == [type |-> "ValueError", samples |-> SampleNames(its)]

\* _add_region_params with the region added a second time after the
\* standard parameters.
RegionParamsTwice(reg, out, its, gtype, vr, skip_dups) ==
    LET sub == subset_variant_regions(vr, reg, out, its)
        sel == IF sub.kind # "none"
               THEN (IF gtype = "gatk4"
                     THEN <<"-L", region_to_gatk(sub), "--interval-set-rule", "INTERSECTION">>
                     ELSE <<"-L", region_to_gatk(sub), "--interval_set_rule", "INTERSECTION">>)
               ELSE <<>>
    IN  sel \o standard_cl_params(skip_dups, gtype) \o sel

\* _add_region_params
_add_region_params(reg, out, its, gtype, vr, skip_dups) ==
    LET sub == subset_variant_regions(vr, reg, out, its)
        sel == IF sub.kind # "none"
               THEN (IF gtype = "gatk4"
                     THEN <<"-L", region_to_gatk(sub), "--interval-set-rule", "INTERSECTION">>
                     ELSE <<"-L", region_to_gatk(sub), "--interval_set_rule", "INTERSECTION">>)
               ELSE <<>>
    IN  sel \o standard_cl_params(skip_dups, gtype)

\* _add_assoc_params
_add_assoc_params(assoc) ==
    (IF assoc.dbsnp # None THEN <<"--dbsnp", assoc.dbsnp>> ELSE <<>>)
    \o (IF assoc.cosmic # None THEN <<"--cosmic", assoc.cosmic>> ELSE <<>>)

\* mutect2_caller with the call of _add_assoc_params restored.
CallerAssocParamsRestored(assoc) == _add_assoc_params(assoc)

\* mutect2_caller, lines 96-98: the call of _add_assoc_params is commented out
CallerAssocParams(assoc) == <<>>

\* mutect2_caller, lines 84-92
BaseParams(gtype, annots) ==
    <<"-T", IF gtype = "gatk4" THEN "Mutect2" ELSE "MuTect2",
      "-R", RefFile,
      "--annotation", "ClippingRankSumTest",
      "--annotation", "DepthPerSampleHC">>
    \o [i \in 1..(2 * Len(annots)) |->
            IF i % 2 = 1 THEN "--annotation" ELSE annots[i \div 2]]
    \o (IF gtype = "gatk4" THEN <<"--read-validation-stringency", "LENIENT">> ELSE <<>>)

\* mutect2_caller, line 99
PloidyParams(n) == <<"-ploidy", ToString(n)>>

\* mutect2_caller, lines 100-102
OptionParams(res) ==
    IF res.has_options THEN [i \in 1..Len(res.options) |-> PyStr(res.options[i])]
    ELSE <<>>

\* _mutect2_filter
_mutect2_filter(in_file, out) ==
    cl_gatk(<<"-T", "FilterMutectCalls", "--variant", PathStr(in_file),
              "--output", PathStr(out)>>, dirname(out))

NoCommand ==
    [kind |-> None, gatk_cmd |-> cl_gatk(<<>>, None), target |-> None,
     filter_cmd |-> cl_gatk(<<>>, None)]

\* The value of the option opt on a command line.
ArgOf(opt, ps) == ps[(CHOOSE i \in 1..Len(ps) : ps[i] = opt) + 1]

(***************************************************************************)
(* State.                                                                  *)
(***************************************************************************)
VARIABLES
    pc,               \* position in mutect2_caller
    items,            \* argument: the samples of the batch
    align_bams,       \* argument: their BAM files
    assoc_files,      \* argument
    region,           \* argument
    out_file_arg,     \* argument: out_file as passed (NoPath for None)
    variant_regions,  \* configuration: variant_regions of the batch
    runner,           \* the GATK installation behind broad_runner
    fs,               \* the files that exist
    out_file,         \* local
    gatk_type,        \* local
    bam_i,            \* _prep_inputs: index of the loop over align_bams
    tx_out_file,      \* local
    params,           \* local
    paired,           \* local
    tparams,          \* value returned by _add_tumor_params
    rparams,          \* value returned by _add_region_params
    resources,        \* local
    cmd,              \* local: the command run by do.run
    log,              \* the calls made so far that act outside the function
    err,              \* the exception that left the function, if any
    result            \* the value returned

vars == <<pc, items, align_bams, assoc_files, region, out_file_arg, variant_regions,
          runner, fs, out_file, gatk_type, bam_i, tx_out_file, params, paired,
          tparams, rparams, resources, cmd, log, err, result>>

args == <<items, align_bams, assoc_files, region, out_file_arg, variant_regions, runner>>

NoPath == Path(None, None, None)

NoError == [type |-> None, samples |-> <<>>]

NoResources == [has_options |-> FALSE, options |-> <<>>]

OutFileArgs == { NoPath, Path("/work", "batch1", ".vcf.gz") }

\* mutect2_caller, lines 77-78
ResolveOutFile(arg, bams) == IF arg = NoPath THEN DefaultOutFile(bams[1]) ELSE arg

\* The file a path string on a command line names.
PathOf(str) ==
    CHOOSE p \in {out_file, tx_out_file, RawFile(tx_out_file), RawFile(out_file)} :
        PathStr(p) = str

\* Command with the outputs written straight to the final path.
CommandWritesFinal(gtype, ps, tx) ==
    LET gatk_cmd == cl_gatk(ps, dirname(tx))
    IN  IF gtype = "gatk4"
        THEN [kind |-> "and", gatk_cmd |-> gatk_cmd, target |-> PathStr(RawFile(tx)),
              filter_cmd |-> _mutect2_filter(RawFile(tx), out_file)]
        ELSE [kind |-> "pipe", gatk_cmd |-> gatk_cmd, target |-> PathStr(out_file),
              filter_cmd |-> cl_gatk(<<>>, None)]

\* Command with gatk4 handled like the older version but for the filter:
\* no raw file, the filter reads and writes tx_out_file.
CommandNoRaw(gtype, ps, tx) ==
    LET gatk_cmd == cl_gatk(ps, dirname(tx))
    IN  IF gtype = "gatk4"
        THEN [kind |-> "and", gatk_cmd |-> gatk_cmd, target |-> PathStr(tx),
              filter_cmd |-> _mutect2_filter(tx, tx)]
        ELSE [kind |-> "pipe", gatk_cmd |-> gatk_cmd, target |-> PathStr(tx),
              filter_cmd |-> cl_gatk(<<>>, None)]

\* mutect2_caller, lines 106-112: the shell command handed to do.run.  For
\* gatk4 "{gatk_cmd} -O {tx_raw_file} && {filter_cmd}", otherwise
\* "{gatk_cmd} | bgzip -c > {tx_out_file}".  target is the file the calling
\* step writes.
Command(gtype, ps, tx) ==
    LET gatk_cmd == cl_gatk(ps, dirname(tx))
    IN  IF gtype = "gatk4"
        THEN [kind |-> "and", gatk_cmd |-> gatk_cmd, target |-> PathStr(RawFile(tx)),
              filter_cmd |-> _mutect2_filter(RawFile(tx), tx)]
        ELSE [kind |-> "pipe", gatk_cmd |-> gatk_cmd, target |-> PathStr(tx),
              filter_cmd |-> cl_gatk(<<>>, None)]

Init ==
    /\ pc = "start"
    /\ items \in Batches
    /\ align_bams = [i \in 1..Len(items) |-> AlignBam(i)]
    /\ assoc_files \in AssocFileChoices
    /\ region \in RegionArgs
    /\ out_file_arg \in OutFileArgs
    /\ variant_regions \in VariantRegionChoices
    /\ runner \in Runners
    /\ fs \in { {}, {ResolveOutFile(out_file_arg, align_bams)} }
    /\ out_file = NoPath
    /\ gatk_type = None
    /\ bam_i = 0
    /\ tx_out_file = NoPath
    /\ params = <<>>
    /\ paired = NoPair
    /\ tparams = <<>>
    /\ rparams = <<>>
    /\ resources = NoResources
    /\ cmd = NoCommand
    /\ log = <<>>
    /\ err = NoError
    /\ result = NoPath

(***************************************************************************)
(* mutect2_caller, one action per step.                                    *)
(***************************************************************************)
\* lines 77-79 without the branch on utils.file_exists: the steps run even
\* when out_file is there.
CheckOutFileIgnored ==
    /\ pc = "start"
    /\ out_file' = ResolveOutFile(out_file_arg, align_bams)
    /\ log' = Append(log, "file_exists")
    /\ pc' = "runner"
    /\ UNCHANGED <<args, fs, gatk_type, bam_i, tx_out_file, params, paired, tparams,
                   rparams, resources, cmd, err, result>>

\* lines 77-79: default out_file, then utils.file_exists(out_file)
CheckOutFile ==
    /\ pc = "start"
    /\ out_file' = ResolveOutFile(out_file_arg, align_bams)
    /\ log' = Append(log, "file_exists")
    /\ pc' = IF out_file' \in fs THEN "finalize" ELSE "runner"
    /\ UNCHANGED <<args, fs, gatk_type, bam_i, tx_out_file, params, paired, tparams,
                   rparams, resources, cmd, err, result>>

\* lines 80-81: runner_from_config, gatk_type()
GetGatkType ==
    /\ pc = "runner"
    /\ gatk_type' = runner.gatk_type
    /\ pc' = "prep_ref"
    /\ UNCHANGED <<args, fs, out_file, bam_i, tx_out_file, params, paired, tparams,
                   rparams, resources, cmd, log, err, result>>

\* line 82, _prep_inputs lines 66-67: picard_index_ref
PicardIndexRef ==
    /\ pc = "prep_ref"
    /\ log' = Append(log, "picard_index_ref")
    /\ fs' = fs \cup {Path("/ref", "genome", ".dict")}
    /\ bam_i' = 1
    /\ pc' = "prep_bam"
    /\ UNCHANGED <<args, out_file, gatk_type, tx_out_file, params, paired, tparams,
                   rparams, resources, cmd, err, result>>

\* _prep_inputs lines 68-69: bam.index of each of align_bams
BamIndex ==
    /\ pc = "prep_bam"
    /\ bam_i <= Len(align_bams)
    /\ log' = Append(log, "bam_index")
    /\ fs' = fs \cup {Path(align_bams[bam_i].dir, align_bams[bam_i].stem, ".bam.bai")}
    /\ bam_i' = bam_i + 1
    /\ pc' = IF bam_i = Len(align_bams) THEN "tx_open" ELSE "prep_bam"
    /\ UNCHANGED <<args, out_file, gatk_type, tx_out_file, params, paired, tparams,
                   rparams, resources, cmd, err, result>>

\* line 83: entering file_transaction
TxOpen ==
    /\ pc = "tx_open"
    /\ tx_out_file' = TxFile(out_file)
    /\ log' = Append(log, "file_transaction")
    /\ pc' = "base"
    /\ UNCHANGED <<args, fs, out_file, gatk_type, bam_i, params, paired, tparams,
                   rparams, resources, cmd, err, result>>

\* lines 84-92
BuildBase ==
    /\ pc = "base"
    /\ \E annots \in AnnotationChoices : params' = BaseParams(gatk_type, annots)
    /\ pc' = "tumor"
    /\ UNCHANGED <<args, fs, out_file, gatk_type, bam_i, tx_out_file, paired, tparams,
                   rparams, resources, cmd, log, err, result>>

\* lines 93-94 with the error raised without the sample names.
AddTumorBareError ==
    /\ pc = "tumor"
    /\ paired' = get_paired_bams(align_bams, items)
    /\ IF paired' = NoPair
       THEN /\ err' = [type |-> "ValueError", samples |-> <<>>]
            /\ pc' = "tx_error"
            /\ UNCHANGED <<tparams, params>>
       ELSE /\ tparams' = _add_tumor_params(paired', items, gatk_type)
            /\ params' = params \o tparams'
            /\ pc' = "region"
            /\ UNCHANGED err
    /\ UNCHANGED <<args, fs, out_file, gatk_type, bam_i, tx_out_file,
                   rparams, resources, cmd, log, result>>

\* lines 93-94: get_paired_bams, _add_tumor_params
AddTumor ==
    /\ pc = "tumor"
    /\ paired' = get_paired_bams(align_bams, items)
    /\ IF paired' = NoPair
       THEN /\ err' = TumorError(items)
            /\ pc' = "tx_error"
            /\ UNCHANGED <<tparams, params>>
       ELSE /\ tparams' = _add_tumor_params(paired', items, gatk_type)
            /\ params' = params \o tparams'
            /\ pc' = "region"
            /\ UNCHANGED err
    /\ UNCHANGED <<args, fs, out_file, gatk_type, bam_i, tx_out_file,
                   rparams, resources, cmd, log, result>>

\* line 95
AddRegion ==
    /\ pc = "region"
    /\ \E skip_dups \in BOOLEAN :
          rparams' = _add_region_params(region, out_file, items, gatk_type,
                                        variant_regions, skip_dups)
    /\ params' = params \o rparams'
    /\ fs' = IF region.kind # "none" /\ variant_regions # None
             THEN fs \cup {SubsetFile(out_file)} ELSE fs
    /\ pc' = "ploidy"
    /\ UNCHANGED <<args, out_file, gatk_type, bam_i, tx_out_file, paired, tparams,
                   resources, cmd, log, err, result>>

\* lines 96-99
AddPloidy ==
    /\ pc = "ploidy"
    /\ \E n \in PloidyChoices :
          params' = params \o CallerAssocParams(assoc_files) \o PloidyParams(n)
    /\ pc' = "options"
    /\ UNCHANGED <<args, fs, out_file, gatk_type, bam_i, tx_out_file, paired, tparams,
                   rparams, resources, cmd, log, err, result>>

\* lines 100-102
AddOptions ==
    /\ pc = "options"
    /\ resources' \in ResourceChoices
    /\ params' = params \o OptionParams(resources')
    /\ pc' = "version"
    /\ UNCHANGED <<args, fs, out_file, gatk_type, bam_i, tx_out_file, paired, tparams,
                   rparams, cmd, log, err, result>>

\* lines 103-104: the assertion on gatk_major_version()
CheckVersion ==
    /\ pc = "version"
    /\ IF VersionGE(LooseVersion(runner.version), LooseVersion("3.5"))
       THEN pc' = "command" /\ UNCHANGED err
       ELSE pc' = "tx_error" /\ err' = [type |-> "AssertionError", samples |-> <<>>]
    /\ UNCHANGED <<args, fs, out_file, gatk_type, bam_i, tx_out_file, params, paired,
                   tparams, rparams, resources, cmd, log, result>>

\* lines 105-112
BuildCommand ==
    /\ pc = "command"
    /\ cmd' = Command(gatk_type, params, tx_out_file)
    /\ pc' = "run"
    /\ UNCHANGED <<args, fs, out_file, gatk_type, bam_i, tx_out_file, params, paired,
                   tparams, rparams, resources, log, err, result>>

\* line 113, do.run: the calling step.  It may fail; the file it writes is
\* there when it succeeds, and is opened by the shell in any case when the
\* output is redirected.
RunCall ==
    /\ pc = "run"
    /\ log' = Append(log, "MuTect2")
    /\ \E ok \in BOOLEAN, wrote \in BOOLEAN :
          /\ ok => wrote
          /\ cmd.kind = "pipe" => wrote
          /\ fs' = IF wrote THEN fs \cup {PathOf(cmd.target)} ELSE fs
          /\ IF ok
             THEN pc' = (IF cmd.kind = "and" THEN "run_filter" ELSE "tx_exit")
                  /\ UNCHANGED err
             ELSE pc' = "tx_error"
                  /\ err' = [type |-> "CalledProcessError", samples |-> <<>>]
    /\ UNCHANGED <<args, out_file, gatk_type, bam_i, tx_out_file, params, paired,
                   tparams, rparams, resources, cmd, result>>

\* line 113, do.run: the right-hand side of "&&", FilterMutectCalls
RunFilter ==
    /\ pc = "run_filter"
    /\ log' = Append(log, "FilterMutectCalls")
    /\ \E ok \in BOOLEAN, wrote \in BOOLEAN :
          /\ ok => wrote
          /\ ok => PathOf(ArgOf("--variant", cmd.filter_cmd.params)) \in fs
          /\ fs' = IF wrote THEN fs \cup {PathOf(ArgOf("--output", cmd.filter_cmd.params))}
                   ELSE fs
          /\ IF ok
             THEN pc' = "tx_exit" /\ UNCHANGED err
             ELSE pc' = "tx_error"
                  /\ err' = [type |-> "CalledProcessError", samples |-> <<>>]
    /\ UNCHANGED <<args, out_file, gatk_type, bam_i, tx_out_file, params, paired,
                   tparams, rparams, resources, cmd, result>>

\* line 83, leaving file_transaction normally: the temporary file is moved
\* to out_file and the temporary directory removed.
TxCommit ==
    /\ pc = "tx_exit"
    /\ log' = Append(log, "tx_commit")
    /\ fs' = {f \in fs : f.dir # tx_out_file.dir}
             \cup (IF tx_out_file \in fs THEN {out_file} ELSE {})
    /\ pc' = "finalize"
    /\ UNCHANGED <<args, out_file, gatk_type, bam_i, tx_out_file, params, paired,
                   tparams, rparams, resources, cmd, err, result>>

\* line 83, leaving file_transaction by an exception: the temporary
\* directory is removed and the exception goes on to the caller.
TxDiscard ==
    /\ pc = "tx_error"
    /\ log' = Append(log, "tx_discard")
    /\ fs' = {f \in fs : f.dir # tx_out_file.dir}
    /\ pc' = "raised"
    /\ UNCHANGED <<args, out_file, gatk_type, bam_i, tx_out_file, params, paired,
                   tparams, rparams, resources, cmd, err, result>>

\* line 115: vcfutils.bgzip_and_index(out_file, config)
Finalize ==
    /\ pc = "finalize"
    /\ log' = Append(log, "bgzip_and_index")
    /\ fs' = fs \cup {TbiFile(out_file)}
    /\ result' = out_file
    /\ pc' = "done"
    /\ UNCHANGED <<args, out_file, gatk_type, bam_i, tx_out_file, params, paired,
                   tparams, rparams, resources, cmd, err>>

Next ==
    \/ CheckOutFile
    \/ GetGatkType
    \/ PicardIndexRef
    \/ BamIndex
    \/ TxOpen
    \/ BuildBase
    \/ AddTumor
    \/ AddRegion
    \/ AddPloidy
    \/ AddOptions
    \/ CheckVersion
    \/ BuildCommand
    \/ RunCall
    \/ RunFilter
    \/ TxCommit
    \/ TxDiscard
    \/ Finalize

Spec == Init /\ [][Next]_vars

(***************************************************************************)
(* Vocabulary of the properties.                                           *)
(***************************************************************************)
Ran(step) == Contains(step, log)

\* The path of the final output, known from the arguments alone.
FinalPath == ResolveOutFile(out_file_arg, align_bams)

\* The parameter sequence is complete: line 102 has been passed and the
\* function is still inside the file_transaction block.
ParamsBuilt == pc \in {"version", "command", "run", "run_filter", "tx_exit"}

\* _add_tumor_params has returned.
TumorParamsAdded == tparams # <<>>

\* _add_region_params has returned.
RegionParamsAdded == pc \in {"ploidy", "options"} \/ ParamsBuilt

OldGatk == gatk_type # None /\ gatk_type # "gatk4"

\* The region that _add_region_params selects by.
Subset == subset_variant_regions(variant_regions, region, out_file, items)

IntervalRule == IF gatk_type = "gatk4" THEN "--interval-set-rule" ELSE "--interval_set_rule"

RegionRun == <<"-L", region_to_gatk(Subset), IntervalRule, "INTERSECTION">>

\* The stage of mutect2_caller a logged call belongs to.
Stage(step) ==
    CASE step = "file_exists"       -> 0
      [] step = "picard_index_ref"  -> 1
      [] step = "bam_index"         -> 1
      [] step = "file_transaction"  -> 2
      [] step = "MuTect2"           -> 3
      [] step = "FilterMutectCalls" -> 3
      [] step = "tx_commit"         -> 4
      [] step = "tx_discard"        -> 4
      [] step = "bgzip_and_index"   -> 5

(***************************************************************************)
(* C1                                                                      *)
(***************************************************************************)
\* C1: when the version assertion fails, no external step has run before the
\* abort: no input indexing (picard reference index, BAM index), no MuTect2
\* command, no final bgzip/index.
C1_AbortBeforeAnyProcess ==
    err.type = "AssertionError" =>
        /\ ~Ran("picard_index_ref")
        /\ ~Ran("bam_index")
        /\ ~Ran("MuTect2")
        /\ ~Ran("FilterMutectCalls")
        /\ ~Ran("bgzip_and_index")

(***************************************************************************)
(* C2                                                                      *)
(***************************************************************************)
\* C2: whenever the file_transaction block is left by an exception the final
\* path does not exist, and the final path only ever comes into existence by
\* the rename done when the block is left normally.
C2_NoFinalFileOnFailure ==
    [][ /\ pc' = "raised" => FinalPath \notin fs'
        /\ (FinalPath \notin fs /\ FinalPath \in fs') =>
               (pc = "tx_exit" /\ pc' = "finalize" /\ err = NoError /\ tx_out_file \in fs)
      ]_vars

\* A failed external command whose partial output had been written.
C2_Witness ==
    /\ pc = "raised"
    /\ err.type = "CalledProcessError"
    /\ cmd.kind = "pipe"
    /\ Ran("MuTect2")
    /\ Ran("tx_discard")
    /\ FinalPath \notin fs

(***************************************************************************)
(* C3                                                                      *)
(***************************************************************************)
\* C3: the steps run in the order exists-check, input indexing, transaction,
\* external command(s), final bgzip-and-index; an existing out_file skips
\* everything but the final step; on a normal return the final step has run
\* exactly once and is the last thing that ran.
C3_FixedOrder ==
    [][ /\ \A i \in 1..(Len(log') - 1) : Stage(log'[i]) <= Stage(log'[i + 1])
        /\ log'[1] = "file_exists" /\ Count("file_exists", log') = 1
        /\ (pc = "start" /\ FinalPath \in fs) => pc' = "finalize"
        /\ (pc = "start" /\ FinalPath \notin fs) => pc' # "finalize"
        /\ (pc' = "finalize" /\ ~Ran("file_transaction")') => log' = <<"file_exists">>
        /\ (pc' = "finalize" /\ Ran("file_transaction")') =>
               /\ Count("picard_index_ref", log') = 1
               /\ Count("bam_index", log') = Len(align_bams)
               /\ Count("file_transaction", log') = 1
               /\ Count("MuTect2", log') = 1
               /\ log'[Len(log')] = "tx_commit"
        /\ Ran("bgzip_and_index")' <=> pc' = "done"
        /\ pc' = "done" =>
               /\ Count("bgzip_and_index", log') = 1
               /\ log'[Len(log')] = "bgzip_and_index"
        /\ pc # "done"
      ]_vars

\* A normal return after the whole sequence has run.
C3_Witness ==
    /\ pc = "done"
    /\ Ran("picard_index_ref") /\ Ran("bam_index") /\ Ran("file_transaction")
    /\ Ran("MuTect2") /\ Ran("FilterMutectCalls")
    /\ log[Len(log)] = "bgzip_and_index"

(***************************************************************************)
(* C4                                                                      *)
(***************************************************************************)
NoTumor == \A i \in 1..Len(items) : items[i].phenotype # "tumor"

\* C4: when the batch has no tumor sample and the parameters are built, the
\* call ends in a ValueError that lists the sample names of the batch;
\* _add_tumor_params returned nothing, no command was built or run, and the
\* final output does not exist.
C4_FailFastWithoutTumor ==
    (NoTumor /\ Ran("file_transaction") /\ pc \notin {"base", "tumor"}) =>
        /\ pc \in {"tx_error", "raised"}
        /\ err = [type |-> "ValueError", samples |-> SampleNames(items)]
        /\ tparams = <<>>
        /\ ~Contains("-I", params) /\ ~Contains("-I:tumor", params)
        /\ cmd = NoCommand
        /\ ~Ran("MuTect2") /\ ~Ran("FilterMutectCalls")
        /\ FinalPath \notin fs

\* The error has left the function for a batch of normal samples only.
C4_Witness ==
    /\ NoTumor
    /\ Len(items) = 2
    /\ pc = "raised"
    /\ err.type = "ValueError"

(***************************************************************************)
(* C5                                                                      *)
(***************************************************************************)
TumorInputOld == \E i \in RunAt(<<"-I:tumor", paired.tumor_bam>>, params) : TRUE

\* C5 as stated: for the old tool version the complete parameter sequence
\* holds "-I:tumor <tumor_bam>" and never "--tumor-sample", whatever the
\* configuration.
C5_OldNeverTumorSample ==
    (OldGatk /\ ParamsBuilt) =>
        /\ TumorInputOld
        /\ ~Contains("--tumor-sample", params)

\* C5 as amended: for the old tool version the complete parameter sequence
\* holds "-I:tumor <tumor_bam>", _add_tumor_params returns no
\* "--tumor-sample", and the sequence holds "--tumor-sample" exactly as often
\* as the user-configured resource options, appended verbatim, do.
C5_OldTumorSampleOnlyFromOptions ==
    (OldGatk /\ ParamsBuilt) =>
        /\ TumorInputOld
        /\ ~Contains("--tumor-sample", tparams)
        /\ Count("--tumor-sample", params)
               = Count("--tumor-sample", OptionParams(resources))

\* The old tool version with a tumor/normal pair, parameters complete.
C5_Witness ==
    /\ OldGatk /\ ParamsBuilt
    /\ paired.normal_bam # None
    /\ resources.has_options /\ resources.options # <<>>
    /\ ~Contains("--tumor-sample", params)

(***************************************************************************)
(* C6                                                                      *)
(***************************************************************************)
TumorRun == <<"-I", paired.tumor_bam, "--tumor-sample", paired.tumor_name>>

NormalRun == <<"-I", paired.normal_bam, "--normal-sample", paired.normal_name>>

\* C6: for gatk4, once _add_tumor_params has returned, the parameters hold
\* the run "-I <tumor_bam> --tumor-sample <tumor_name>", and with a normal
\* sample also "-I <normal_bam> --normal-sample <normal_name>" after it.
C6_Gatk4TumorNormalRuns ==
    (gatk_type = "gatk4" /\ TumorParamsAdded) =>
        /\ RunAt(TumorRun, tparams) = {1}
        /\ RunAt(TumorRun, params) # {}
        /\ paired.normal_bam # None =>
               /\ RunAt(NormalRun, tparams) = {5}
               /\ \E i \in RunAt(TumorRun, params), j \in RunAt(NormalRun, params) : i < j

\* gatk4 with a normal sample that comes first in the batch.
C6_Witness ==
    /\ gatk_type = "gatk4" /\ ParamsBuilt
    /\ paired.normal_bam = PathStr(AlignBam(1))
    /\ paired.tumor_bam = PathStr(AlignBam(2))

(***************************************************************************)
(* C7                                                                      *)
(***************************************************************************)
\* C7 as stated: without a normal sample _add_tumor_params returns none of
\* -I:normal, --normal-sample, --normal_panel, --panel-of-normals, and at
\* most one -I, whatever the panel-of-normals setting.
C7_NoNormalNoNormalFlags ==
    (TumorParamsAdded /\ paired.normal_bam = None) =>
        /\ ~Contains("-I:normal", tparams)
        /\ ~Contains("--normal-sample", tparams)
        /\ ~Contains("--normal_panel", tparams)
        /\ ~Contains("--panel-of-normals", tparams)
        /\ Count("-I", tparams) <= 1

PanelRun ==
    <<IF gatk_type = "gatk4" THEN "--panel-of-normals" ELSE "--normal_panel",
      paired.normal_panel>>

\* C7 as amended: without a normal sample _add_tumor_params returns neither
\* -I:normal nor --normal-sample and at most one -I; the panel-of-normals
\* flag does not depend on the normal sample: it is returned, in the spelling
\* of the tool version and followed by the panel, exactly when a panel of
\* normals is configured.
C7_NoNormalInputFlags ==
    (TumorParamsAdded /\ paired.normal_bam = None) =>
        /\ ~Contains("-I:normal", tparams)
        /\ ~Contains("--normal-sample", tparams)
        /\ Count("-I", tparams) <= 1
        /\ paired.normal_panel = None =>
               /\ ~Contains("--normal_panel", tparams)
               /\ ~Contains("--panel-of-normals", tparams)
        /\ paired.normal_panel # None =>
               /\ RunAt(PanelRun, tparams) = {Len(tparams) - 1}
               /\ Count("--normal_panel", tparams) + Count("--panel-of-normals", tparams) = 1

\* A tumor-only batch with a panel of normals.
C7_Witness ==
    /\ TumorParamsAdded
    /\ paired.normal_bam = None
    /\ paired.normal_panel # None
    /\ Len(items) = 2

(***************************************************************************)
(* C8                                                                      *)
(***************************************************************************)
\* C8 as stated: with a region given, the complete parameter sequence
\* (standard parameters and user-configured options included) holds the run
\* "-L <region> <interval rule> INTERSECTION" exactly once; when the
\* subsetting yields no region _add_region_params adds no -L.
C8_RegionExactlyOnce ==
    /\ (ParamsBuilt /\ region.kind # "none") =>
           Cardinality(RunAt(RegionRun, params)) = 1
    /\ (RegionParamsAdded /\ Subset.kind = "none") => ~Contains("-L", rparams)

\* C8 as amended: with a region given, _add_region_params adds the run
\* "-L <region> <interval rule> INTERSECTION" exactly once, and the complete
\* sequence holds it exactly once more for every time the user-configured
\* resource options, which are appended verbatim, hold that same run; when
\* the subsetting yields no region _add_region_params adds no -L.
C8_RegionOnceFromRegionParams ==
    /\ (RegionParamsAdded /\ region.kind # "none") =>
           /\ RunAt(RegionRun, rparams) = {1}
           /\ Count("-L", rparams) = 1
    /\ (ParamsBuilt /\ region.kind # "none") =>
           Cardinality(RunAt(RegionRun, params))
               = 1 + Cardinality(RunAt(RegionRun, OptionParams(resources)))
    /\ (RegionParamsAdded /\ Subset.kind = "none") => ~Contains("-L", rparams)

\* A region given together with configured variant regions and standard
\* parameters, and user options that select another interval: the run is
\* there once.
C8_Witness ==
    /\ ParamsBuilt
    /\ region.kind = "tuple" /\ variant_regions # None
    /\ Len(rparams) = 6
    /\ Contains("-L", OptionParams(resources))
    /\ Cardinality(RunAt(RegionRun, params)) = 1

(***************************************************************************)
(* C9                                                                      *)
(***************************************************************************)
\* C9: for gatk4 the calling step writes the raw file (tx_out_file with
\* "-raw" before the extension, in the transaction directory) and
\* FilterMutectCalls, run only after a successful calling step, reads the raw
\* file and writes tx_out_file; for the older version a single GATK command
\* is piped through bgzip into tx_out_file, with no filter and no raw file.
\* Only tx_out_file becomes the result of the transaction.
C9_PostProcessing ==
    /\ (cmd # NoCommand /\ gatk_type = "gatk4") =>
           /\ cmd.kind = "and"
           /\ cmd.target = PathStr(RawFile(tx_out_file))
           /\ RawFile(tx_out_file) # tx_out_file
           /\ dirname(RawFile(tx_out_file)) = dirname(tx_out_file)
           /\ RawFile(tx_out_file).stem = tx_out_file.stem \o "-raw"
           /\ RawFile(tx_out_file).ext = tx_out_file.ext
           /\ ArgOf("-T", cmd.filter_cmd.params) = "FilterMutectCalls"
           /\ ArgOf("--variant", cmd.filter_cmd.params) = cmd.target
           /\ ArgOf("--output", cmd.filter_cmd.params) = PathStr(tx_out_file)
           /\ cmd.gatk_cmd.params = params
           /\ pc = "tx_exit" => Ran("FilterMutectCalls")
    /\ (cmd # NoCommand /\ OldGatk) =>
           /\ cmd.kind = "pipe"
           /\ cmd.target = PathStr(tx_out_file)
           /\ cmd.gatk_cmd.params = params
           /\ ~Ran("FilterMutectCalls")
           /\ RawFile(tx_out_file) \notin fs
    /\ Count("MuTect2", log) <= 1 /\ Count("FilterMutectCalls", log) <= 1
    /\ Ran("FilterMutectCalls") =>
           /\ gatk_type = "gatk4"
           /\ \E i \in 2..Len(log) : log[i] = "FilterMutectCalls" /\ log[i - 1] = "MuTect2"
    /\ pc = "run_filter" => (err = NoError /\ RawFile(tx_out_file) \in fs)
    /\ pc = "tx_exit" => tx_out_file \in fs /\ out_file \notin fs
    /\ (pc \in {"finalize", "done"} /\ Ran("tx_commit")) =>
           /\ out_file \in fs
           /\ \A f \in fs : f.dir # tx_out_file.dir
           /\ RawFile(out_file) \notin fs

\* The block is about to be left normally after both gatk4 steps.
C9_Witness ==
    /\ pc = "tx_exit"
    /\ gatk_type = "gatk4"
    /\ Ran("FilterMutectCalls")
    /\ RawFile(tx_out_file) \in fs /\ tx_out_file \in fs

(***************************************************************************)
(* C10                                                                     *)
(***************************************************************************)
\* The complete sequence is made of the base parameters, the tumor and
\* region parameters, one "-ploidy <n>" and the configured options, in this
\* order, with nothing taken from assoc_files.
ParamsWithoutAssoc ==
    \E annots \in AnnotationChoices, n \in PloidyChoices :
        params = BaseParams(gatk_type, annots) \o tparams \o rparams
                 \o PloidyParams(n) \o OptionParams(resources)

\* C10 as stated: for every assoc_files the complete parameter sequence is
\* the same, holds neither --dbsnp nor --cosmic, and holds the -ploidy pair
\* once, after the region parameters and before the configured options.
C10_AssocFilesUnused ==
    ParamsBuilt =>
        /\ ParamsWithoutAssoc
        /\ ~Contains("--dbsnp", params)
        /\ ~Contains("--cosmic", params)

\* C10 as amended: for every assoc_files the complete parameter sequence is
\* the same and holds the -ploidy pair once, added by the caller after the
\* region parameters and before the configured options; the caller adds
\* neither --dbsnp nor --cosmic: they occur in the sequence only as often as
\* in the user-configured resource options, which are appended verbatim.
C10_AssocFilesUnusedByCaller ==
    ParamsBuilt =>
        /\ ParamsWithoutAssoc
        /\ Count("--dbsnp", params) = Count("--dbsnp", OptionParams(resources))
        /\ Count("--cosmic", params) = Count("--cosmic", OptionParams(resources))

\* Both association files set, parameters complete.
C10_Witness ==
    /\ ParamsBuilt
    /\ assoc_files.dbsnp # None /\ assoc_files.cosmic # None
    /\ ~Contains("--dbsnp", params) /\ ~Contains("--cosmic", params)
    /\ Count("-ploidy", params) = 1

====
